---- MODULE Spec2Model ----
(***************************************************************************)
(* A model of local_settings.loader.Loader: the path parser, the traversal *)
(* engine with its create-missing policy, the extends chain of read_file,  *)
(* and load with its three post-processing passes.                         *)
(*                                                                         *)
(* Python strings are sequences of one-character strings.  A parsed path   *)
(* segment, which is also a mapping key, is a record                       *)
(*     [isInt |-> BOOLEAN, num |-> Nat, str |-> a Python string].          *)
(***************************************************************************)
EXTENDS Integers, Sequences, FiniteSets, TLC

VARIABLES
    pc,        \* which operation of the Loader ran last
    path,      \* _parse_path: the path expression handed in
    shape,     \* how path was built: [kind, tokens, tail]
    segments,  \* _parse_path: the list returned
    perr,      \* _parse_path: the exception raised, "none" when it returned
    files,     \* the settings files: file name -> its section, an ordered mapping
    readArg,   \* read_file: the file name of the Loader it was called on
    readOut,   \* read_file: [err, keys, items], the ordered mapping returned
    heap,      \* the objects allocated so far
    registry,  \* self.registry: LocalSetting address -> segment
    settings,  \* the reference to the settings mapping the methods work on
    heap0,     \* the heap as it was before the last call
    call,      \* the last call: its arguments, exception, return value, trace
    created,   \* path -> what the first successful create-missing traversal
               \* of that path returned
    baseRef,   \* the reference to the base settings mapping handed to load
    outs       \* load: per call, [err, ret, tree]: the exception, the value
               \* returned and the tree it was when returned

vars == <<pc, path, shape, segments, perr, files, readArg, readOut,
          heap, registry, settings, heap0, call, created, baseRef, outs>>

parseVars == <<path, shape, segments, perr>>
readVars == <<files, readArg, readOut>>
treeVars == <<heap, registry, settings, heap0, call, created>>
loadVars == <<baseRef, outs>>

----------------------------------------------------------------------------
(* Strings *)

Digits == {"0", "1", "2", "3", "4", "5", "6", "7", "8", "9"}

DigitVal(c) ==
    CASE c = "0" -> 0 [] c = "1" -> 1 [] c = "2" -> 2 [] c = "3" -> 3
      [] c = "4" -> 4 [] c = "5" -> 5 [] c = "6" -> 6 [] c = "7" -> 7
      [] c = "8" -> 8 [] c = "9" -> 9

\* All sequences over S of length exactly n, and of length at most n.
RECURSIVE SeqsOfLen(_, _)
SeqsOfLen(S, n) ==
    IF n = 0 THEN {<<>>}
    ELSE {<<c>> \o s : c \in S, s \in SeqsOfLen(S, n - 1)}

SeqsUpTo(S, n) == UNION {SeqsOfLen(S, k) : k \in 0..n}

\* F applied to the value of e, which is computed once: a statement of the
\* code runs once and the statements after it see its result.
Then(e, F(_)) == CHOOSE r \in {F(x) : x \in {e}} : TRUE

----------------------------------------------------------------------------
(* Loader._convert_name *)

\* re.search('^\d+$', name)
AllDigits(name) == Len(name) > 0 /\ \A i \in 1..Len(name) : name[i] \in Digits

\* int(name) for a string of digits
RECURSIVE IntOf(_)
IntOf(name) ==
    IF Len(name) = 0 THEN 0
    ELSE 10 * IntOf(SubSeq(name, 1, Len(name) - 1)) + DigitVal(name[Len(name)])

StrSeg(name) == [isInt |-> FALSE, num |-> 0, str |-> name]
IntSeg(n) == [isInt |-> TRUE, num |-> n, str |-> <<>>]

_convert_name(name) ==
    IF AllDigits(name)
    THEN IF Len(name) > 1 /\ name[1] = "0"
         THEN StrSeg(name)
         ELSE IntSeg(IntOf(name))
    ELSE StrSeg(name)

----------------------------------------------------------------------------
(* Loader._parse_path *)

\* takewhile(lambda c: c != end, ipath), the iterator standing before index i:
\* the index of the first character from i on that equals end, Len(p) + 1
\* when there is none.  takewhile consumes that character too.
RECURSIVE TakeWhileStop(_, _, _)
TakeWhileStop(p, i, end) ==
    IF i > Len(p) THEN Len(p) + 1
    ELSE IF p[i] = end THEN i
    ELSE TakeWhileStop(p, i + 1, end)

\* The loop "for char in ipath" with the iterator standing before index i.
RECURSIVE ParseFrom(_, _, _)
ParseFrom(p, i, segs) ==
    IF i > Len(p) THEN segs
    ELSE LET char == p[i]
             end == IF char = "(" THEN ")" ELSE "."
             stop == TakeWhileStop(p, i + 1, end)
             taken == SubSeq(p, i + 1, stop - 1)
             segment == IF char = "(" THEN taken ELSE <<char>> \o taken
             \* next(ipath, None) after a right paren consumes one more
             after == IF end = ")" THEN stop + 2 ELSE stop + 1
         IN ParseFrom(p, after, Append(segs, _convert_name(segment)))

\* The mutant: a parenthesis is an ordinary character, so every dot splits.
ParsePathSplittingEveryDot(p) ==
    LET RECURSIVE Go(_, _)
        Go(i, segs) ==
            IF i > Len(p) THEN segs
            ELSE LET stop == TakeWhileStop(p, i + 1, ".")
                 IN Go(stop + 1, Append(segs, _convert_name(SubSeq(p, i, stop - 1))))
    IN Go(1, <<>>)

\* The mutant: a token whose "(" is never closed is dropped.
ParsePathDroppingUnclosed(p) ==
    LET RECURSIVE Go(_, _)
        Go(i, segs) ==
            IF i > Len(p) THEN segs
            ELSE LET char == p[i]
                     end == IF char = "(" THEN ")" ELSE "."
                     stop == TakeWhileStop(p, i + 1, end)
                     taken == SubSeq(p, i + 1, stop - 1)
                     segment == IF char = "(" THEN taken ELSE <<char>> \o taken
                     after == IF end = ")" THEN stop + 2 ELSE stop + 1
                 IN IF char = "(" /\ stop > Len(p) THEN segs
                    ELSE Go(after, Append(segs, _convert_name(segment)))
    IN Go(1, <<>>)

_parse_path(p) == ParseFrom(p, 1, <<>>)

----------------------------------------------------------------------------
(* Path expressions handed to _parse_path *)

MaxPathLen == 4

PathAlphabet == {"a", "0", "7", ".", "(", ")"}
BareChars == {"a", "0", "7"}
CompoundChars == {"a", "0", "7", "."}

\* A token of a path expression: a bare identifier or integer, or a
\* parenthesized compound token whose text may hold dots.
Render1(tok) == IF tok.paren THEN <<"(">> \o tok.text \o <<")">> ELSE tok.text

RECURSIVE Render(_)
Render(toks) ==
    IF Len(toks) = 0 THEN <<>>
    ELSE IF Len(toks) = 1 THEN Render1(toks[1])
    ELSE Render1(toks[1]) \o <<".">> \o Render(Tail(toks))

TokensUpTo(n) ==
    {[paren |-> FALSE, text |-> t] : t \in SeqsUpTo(BareChars, n) \ {<<>>}}
      \cup (IF n < 2 THEN {}
            ELSE {[paren |-> TRUE, text |-> t] : t \in SeqsUpTo(CompoundChars, n - 2)})

\* The token lists whose rendering has at most n characters.
RECURSIVE TokenLists(_)
TokenLists(n) ==
    IF n < 1 THEN {}
    ELSE {<<t>> : t \in TokensUpTo(n)}
      \cup UNION {{<<t>> \o rest : rest \in TokenLists(n - Len(Render1(t)) - 1)}
                    : t \in TokensUpTo(n - 2)}

\* Path expressions are drawn three ways: a well-formed expression built
\* from tokens; a well-formed prefix followed by a token whose "(" is never
\* closed; any string at all over the alphabet.
WellFormedShapes ==
    {[kind |-> "tokens", tokens |-> ts, tail |-> <<>>] : ts \in TokenLists(MaxPathLen + 2)}

UnclosedShapes ==
    {[kind |-> "unclosed", tokens |-> ts, tail |-> u] :
        ts \in {<<>>} \cup TokenLists(MaxPathLen - 1),
        u \in SeqsUpTo(CompoundChars, MaxPathLen - 2)}

RawShapes ==
    {[kind |-> "raw", tokens |-> <<>>, tail |-> u] : u \in SeqsUpTo(PathAlphabet, MaxPathLen)}

ShapePath(sh) ==
    CASE sh.kind = "tokens" -> Render(sh.tokens)
      [] sh.kind = "unclosed" ->
            (IF Len(sh.tokens) = 0 THEN <<>> ELSE Render(sh.tokens) \o <<".">>)
              \o <<"(">> \o sh.tail
      [] sh.kind = "raw" -> sh.tail

----------------------------------------------------------------------------
(* Values.  One record shape serves every Python value:                    *)
(*   t     the type                                                        *)
(*   n     an int's value, a container's heap address, a LocalSetting's id *)
(*   s     a str's characters                                              *)
(*   keys, items   the keys and values of a mapping literal, the elements  *)
(*                 of a list literal (a value as written in a file or      *)
(*                 as read off the heap, not yet or no longer an object)   *)

Val(t, n, s, keys, items) == [t |-> t, n |-> n, s |-> s, keys |-> keys, items |-> items]

None == Val("NoneType", 0, <<>>, <<>>, <<>>)
PyInt(i) == Val("int", i, <<>>, <<>>, <<>>)
PyStr(s) == Val("str", 0, s, <<>>, <<>>)
ListLit(items) == Val("list", 0, <<>>, <<>>, items)
DictLit(kind, keys, items) == Val(kind, 0, <<>>, keys, items)

----------------------------------------------------------------------------
(* Ordered mappings: records with parallel sequences keys and items.       *)

ODEmpty == [keys |-> <<>>, items |-> <<>>]

ODHas(d, k) == \E i \in 1..Len(d.keys) : d.keys[i] = k

ODIndex(d, k) == CHOOSE i \in 1..Len(d.keys) : d.keys[i] = k

ODGet(d, k) == d.items[ODIndex(d, k)]

RemoveAt(seq, i) == SubSeq(seq, 1, i - 1) \o SubSeq(seq, i + 1, Len(seq))

\* d[k] = v: an existing key keeps its place, a new one goes to the end
ODSet(d, k, v) ==
    IF ODHas(d, k)
    THEN [d EXCEPT !.items[ODIndex(d, k)] = v]
    ELSE [d EXCEPT !.keys = Append(@, k), !.items = Append(@, v)]

\* del d[k]
ODDel(d, k) ==
    IF ODHas(d, k)
    THEN [d EXCEPT !.keys = RemoveAt(@, ODIndex(d, k)),
                   !.items = RemoveAt(@, ODIndex(d, k))]
    ELSE d

\* d.move_to_end(k)
ODMoveToEnd(d, k) ==
    LET i == ODIndex(d, k)
    IN [d EXCEPT !.keys = Append(RemoveAt(@, i), d.keys[i]),
                 !.items = Append(RemoveAt(@, i), d.items[i])]

\* d.update(e)
RECURSIVE ODUpdateFrom(_, _, _)
ODUpdateFrom(d, e, i) ==
    IF i > Len(e.keys) THEN d
    ELSE ODUpdateFrom(ODSet(d, e.keys[i], e.items[i]), e, i + 1)

ODUpdate(d, e) == ODUpdateFrom(d, e, 1)

Reverse(seq) == [i \in 1..Len(seq) |-> seq[Len(seq) + 1 - i]]

----------------------------------------------------------------------------
(* Loader.__init__ and Loader.read_file *)

KeyExtends == <<"e", "x", "t", "e", "n", "d", "s">>

\* The list "extends" names, after _parse_setting and the str -> [str] step.
\* raw is the section's value for "extends", None when the key is absent
\* (parser[section].get('extends')); "if extends" skips an absent one.
ExtendsList(raw) ==
    IF raw.t = "str" THEN <<raw.s>>
    ELSE IF raw.t = "list" THEN [i \in 1..Len(raw.items) |-> raw.items[i].s]
    ELSE <<>>

\* for k in remove: del settings[k]
RECURSIVE ODDelAll(_, _, _)
ODDelAll(d, ks, i) ==
    IF i > Len(ks) THEN d ELSE ODDelAll(ODDel(d, ks[i]), ks, i + 1)

\* The mutant: the extended files are read in the order listed.
ExtendsOrderAsListed(extends) == extends

\* for e in reversed(extends)
ExtendsOrder(extends) == Reverse(extends)

\* read_file of the Loader on file f.  Loader(e, extender=self) raises
\* SettingsFileNotFoundError when e does not exist; an exception ends the
\* call at once.
RECURSIVE read_file(_, _)
read_file(fs, f) ==
    LET section == fs[f]
        raw == IF ODHas(section, KeyExtends) THEN ODGet(section, KeyExtends) ELSE None
        order == ExtendsOrder(ExtendsList(raw))
        RECURSIVE Extend(_, _)
        Extend(acc, i) ==
            IF i > Len(order) \/ acc.err # "none" THEN acc
            ELSE IF order[i] \notin DOMAIN fs
                 THEN [acc EXCEPT !.err = "SettingsFileNotFoundError"]
                 ELSE LET sub == read_file(fs, order[i])
                      IN IF sub.err # "none" THEN [acc EXCEPT !.err = sub.err]
                         ELSE Extend([err |-> "none"] @@ ODUpdate([keys |-> acc.keys, items |-> acc.items], sub), i + 1)
        merged == Extend([err |-> "none", keys |-> <<>>, items |-> <<>>], 1)
        remove == SelectSeq(merged.keys, LAMBDA k : ODHas(section, k))
        kept == ODDelAll([keys |-> merged.keys, items |-> merged.items], remove, 1)
    IN IF merged.err # "none" THEN merged
       ELSE [err |-> "none"] @@ ODUpdate(kept, section)

----------------------------------------------------------------------------
(* The settings files read_file is run on *)

MaxSetting == 2

FileA == <<"A">>
FileB == <<"B">>
FileC == <<"C">>
FileMissing == <<"N">>
NameX == <<"X">>
NameY == <<"Y">>

\* The sections that set some of the names X and Y, in either order, each
\* to an int in lo..hi.
Sections(lo, hi) ==
    LET one(k) == {[keys |-> <<k>>, items |-> <<PyInt(v)>>] : v \in lo..hi}
        two(k1, k2) == {[keys |-> <<k1, k2>>, items |-> <<PyInt(v), PyInt(w)>>] : v, w \in lo..hi}
    IN {ODEmpty} \cup one(NameX) \cup one(NameY) \cup two(NameX, NameY) \cup two(NameY, NameX)

WithExtends(raw, section) ==
    IF raw = None THEN section
    ELSE [keys |-> <<KeyExtends>> \o section.keys, items |-> <<raw>> \o section.items]

\* What C's "extends" may say: nothing, one name, a list of names.
ExtendsOfC ==
    {None, PyStr(FileA), ListLit(<<PyStr(FileB)>>),
     ListLit(<<PyStr(FileA), PyStr(FileB)>>), ListLit(<<PyStr(FileB), PyStr(FileA)>>),
     ListLit(<<PyStr(FileA), PyStr(FileMissing)>>)}

ExtendsOfB == {None, PyStr(FileA)}

\* A extends nothing, B may extend A, C may extend A and B: no cycle.  C's
\* own values are 0, those of A and B are 1..MaxSetting.
FileSystems ==
    {[f \in {FileA, FileB, FileC} |->
        IF f = FileA THEN a ELSE IF f = FileB THEN WithExtends(eb, b) ELSE WithExtends(ec, c)] :
        a \in Sections(1, MaxSetting), b \in Sections(1, MaxSetting), c \in Sections(0, 0),
        eb \in ExtendsOfB, ec \in ExtendsOfC}

----------------------------------------------------------------------------
(* The heap.  Containers and LocalSetting instances are objects: heap is   *)
(* the sequence of the objects allocated so far and a value of type "ref"  *)
(* holds an object's index in it, so that two references to one object see *)
(* each other's changes.  An object is [kind, keys, items]: kind is "dict", *)
(* "OrderedDict", "list" or "LocalSetting" (items = <<default, value>>).   *)

\* util.NO_DEFAULT, imported under the two names NO_DEFAULT and PLACEHOLDER
NO_DEFAULT == Val("NO_DEFAULT", 0, <<>>, <<>>, <<>>)
PLACEHOLDER == NO_DEFAULT

Ref(a) == Val("ref", a, <<>>, <<>>, <<>>)

\* what import_string returns for the dotted path s
Imported(s) == Val("object", 0, s, <<>>, <<>>)

\* a LocalSetting as written in the base settings
LocalSettingLit(default) == Val("LocalSetting", 0, <<>>, <<>>, <<default, default>>)

ObjectKinds == {"dict", "OrderedDict", "list", "LocalSetting"}

\* next_segment of the last segment: None
NoSegment == [isInt |-> FALSE, num |-> -1, str |-> <<>>]

\* The state the methods work on: the heap, self.registry (LocalSetting
\* address -> segment), the exception raised ("none" while running), and a
\* trace of _traverse's loop: per iteration its obj and segment.
Machine(h, reg) == [heap |-> h, registry |-> reg, err |-> "none", log |-> <<>>]

Raise(m, e) == [m EXCEPT !.err = e]

Result(m, val) == [m |-> m, val |-> val]

Alloc(m, o) == Result([m EXCEPT !.heap = Append(@, o)], Ref(Len(m.heap) + 1))

\* isinstance(v, Mapping), isinstance(v, OrderedDict), isinstance(v, Sequence),
\* isinstance(v, LocalSetting).  A str is a Sequence.
IsMapping(h, v) == v.t = "ref" /\ h[v.n].kind \in {"dict", "OrderedDict"}
IsOrderedDict(h, v) == v.t = "ref" /\ h[v.n].kind = "OrderedDict"
IsList(h, v) == v.t = "ref" /\ h[v.n].kind = "list"
IsSequence(h, v) == IsList(h, v) \/ v.t = "str"
IsLocalSetting(h, v) == v.t = "ref" /\ h[v.n].kind = "LocalSetting"

\* The objects a literal stands for, allocated children first.
RECURSIVE AllocLit(_, _)
AllocLit(h, lit) ==
    IF lit.t \in ObjectKinds
    THEN LET RECURSIVE Items(_, _, _)
             Items(hh, i, acc) ==
                 IF i > Len(lit.items) THEN [heap |-> hh, items |-> acc]
                 ELSE Then(AllocLit(hh, lit.items[i]),
                           LAMBDA r : Items(r.heap, i + 1, Append(acc, r.val)))
         IN Then(Items(h, 1, <<>>),
                 LAMBDA r : [heap |-> Append(r.heap, [kind |-> lit.t, keys |-> lit.keys,
                                                      items |-> r.items]),
                             val |-> Ref(Len(r.heap) + 1)])
    ELSE [heap |-> h, val |-> lit]

\* The value v as a literal: what a caller sees when it walks the tree.
RECURSIVE Deref(_, _)
Deref(h, v) ==
    IF v.t = "ref"
    THEN Val(h[v.n].kind, 0, <<>>, h[v.n].keys,
             [i \in 1..Len(h[v.n].items) |-> Deref(h, h[v.n].items[i])])
    ELSE v

\* obj[segment]
GetItem(m, obj, segment) ==
    IF IsMapping(m.heap, obj)
    THEN IF ODHas(m.heap[obj.n], segment)
         THEN Result(m, ODGet(m.heap[obj.n], segment))
         ELSE Result(Raise(m, "KeyError"), None)
    ELSE IF IsList(m.heap, obj)
    THEN IF ~segment.isInt THEN Result(Raise(m, "TypeError"), None)
         ELSE IF segment.num < Len(m.heap[obj.n].items)
         THEN Result(m, m.heap[obj.n].items[segment.num + 1])
         ELSE Result(Raise(m, "IndexError"), None)
    ELSE IF obj.t = "str"
    THEN IF ~segment.isInt THEN Result(Raise(m, "TypeError"), None)
         ELSE IF segment.num < Len(obj.s)
         THEN Result(m, PyStr(<<obj.s[segment.num + 1]>>))
         ELSE Result(Raise(m, "IndexError"), None)
    ELSE Result(Raise(m, "TypeError"), None)

\* obj[segment] = value
SetItem(m, obj, segment, value) ==
    IF IsMapping(m.heap, obj)
    THEN [m EXCEPT !.heap[obj.n] = ODSet(@, segment, value)]
    ELSE IF IsList(m.heap, obj)
    THEN IF ~segment.isInt THEN Raise(m, "TypeError")
         ELSE IF segment.num < Len(m.heap[obj.n].items)
         THEN [m EXCEPT !.heap[obj.n].items[segment.num + 1] = value]
         ELSE Raise(m, "IndexError")
    ELSE Raise(m, "TypeError")

----------------------------------------------------------------------------
(* Loader._get_or_create_segment *)

\* The default for a missing segment.  The code builds it before it looks
\* at obj; an unused default is garbage nothing refers to, so the model
\* allocates it only where the code stores it.
MakeDefault(m, next_segment, default) ==
    IF default # NO_DEFAULT THEN Result(m, default)
    ELSE IF next_segment.isInt
    THEN Alloc(m, [kind |-> "list", keys |-> <<>>,
                   items |-> [i \in 1..(next_segment.num + 1) |-> PLACEHOLDER]])
    ELSE Alloc(m, [kind |-> "OrderedDict", keys |-> <<>>, items |-> <<>>])

\* while segment >= len(obj): obj.append(PLACEHOLDER)
Grown(items, n) ==
    items \o [i \in 1..(IF n + 1 > Len(items) THEN n + 1 - Len(items) ELSE 0) |-> PLACEHOLDER]

\* The mutant: the slot is set to the default whatever it holds.
FillSlotAlways(m, a, segment, next_segment, default) ==
    LET d == MakeDefault(m, next_segment, default)
    IN Result([d.m EXCEPT !.heap[a].items = [Grown(@, segment.num) EXCEPT ![segment.num + 1] = d.val]],
              d.val)

\* The list branch, obj the list at address a and segment an int.
FillSlot(m, a, segment, next_segment, default) ==
    LET grown == Grown(m.heap[a].items, segment.num)
    IN IF grown[segment.num + 1] = PLACEHOLDER
       THEN LET d == MakeDefault(m, next_segment, default)
            IN Result([d.m EXCEPT !.heap[a].items = [grown EXCEPT ![segment.num + 1] = d.val]],
                      d.val)
       ELSE Result([m EXCEPT !.heap[a].items = grown], grown[segment.num + 1])

\* The mutant: a mapping refuses an int segment.
CreateKeyStrOnly(m, a, segment, next_segment, default) ==
    IF segment.isInt THEN Result(Raise(m, "TypeError"), None)
    ELSE IF ODHas(m.heap[a], segment) THEN Result(m, ODGet(m.heap[a], segment))
    ELSE LET d == MakeDefault(m, next_segment, default)
         IN Result([d.m EXCEPT !.heap[a] = ODSet(@, segment, d.val)], d.val)

\* The mutant: the key is set to the default whether or not it is there.
CreateKeyAlways(m, a, segment, next_segment, default) ==
    LET d == MakeDefault(m, next_segment, default)
    IN Result([d.m EXCEPT !.heap[a] = ODSet(@, segment, d.val)], d.val)

\* The mapping branch, obj the mapping at address a.
CreateKey(m, a, segment, next_segment, default) ==
    IF ODHas(m.heap[a], segment) THEN Result(m, ODGet(m.heap[a], segment))
    ELSE LET d == MakeDefault(m, next_segment, default)
         IN Result([d.m EXCEPT !.heap[a] = ODSet(@, segment, d.val)], d.val)

_get_or_create_segment(m, obj, segment, next_segment, default) ==
    IF IsMapping(m.heap, obj)
    THEN CreateKey(m, obj.n, segment, next_segment, default)
    ELSE IF IsSequence(m.heap, obj)
    THEN IF ~segment.isInt
         \* segment >= len(obj) with a str segment
         THEN Result(Raise(m, "TypeError"), None)
         ELSE IF obj.t = "str"
         THEN IF segment.num >= Len(obj.s)
              \* a str has no append
              THEN Result(Raise(m, "AttributeError"), None)
              ELSE Result(m, PyStr(<<obj.s[segment.num + 1]>>))
         ELSE FillSlot(m, obj.n, segment, next_segment, default)
    \* return obj[segment] on a value that cannot be subscripted
    ELSE Result(Raise(m, "TypeError"), None)

----------------------------------------------------------------------------
(* The visit callbacks, and Loader._traverse *)

\* django's import_string: the dotted paths it can import
Importable == {<<"m", ".", "C">>}

\* The mutant: visit of load without the move_to_end.
VisitLoadNoReorder(m, obj, segment, item, next_segment, value) ==
    LET written == SetItem(m, obj, segment, value)
    IN IF next_segment # NoSegment THEN m
       ELSE IF written.err # "none" THEN written
       ELSE IF IsLocalSetting(written.heap, item)
       THEN [written EXCEPT !.heap[item.n].items[2] = value,
                            !.registry = ODSet(@, item.n, segment)]
       ELSE written

\* visit of load (the closure's value is passed as args)
VisitLoad(m, obj, segment, item, next_segment, value) ==
    LET moved == IF IsOrderedDict(m.heap, obj)
                 THEN [m EXCEPT !.heap[obj.n] = ODMoveToEnd(@, segment)]
                 ELSE m
        written == SetItem(moved, obj, segment, value)
    IN IF next_segment # NoSegment THEN moved
       ELSE IF written.err # "none" THEN written
       ELSE IF IsLocalSetting(written.heap, item)
       THEN [written EXCEPT !.heap[item.n].items[2] = value,
                            !.registry = ODSet(@, item.n, segment)]
       ELSE written

\* visit of _import_from_string
VisitImport(m, obj, key, val) ==
    IF val.t # "str" THEN m
    ELSE IF val.s \in Importable THEN SetItem(m, obj, key, Imported(val.s))
    ELSE Raise(m, "ImportError")

\* val + extra_val
Concat(m, val, extra_val) ==
    IF IsList(m.heap, val) /\ IsList(m.heap, extra_val)
    THEN Alloc(m, [kind |-> "list", keys |-> <<>>,
                   items |-> m.heap[val.n].items \o m.heap[extra_val.n].items])
    ELSE IF val.t = "str" /\ extra_val.t = "str"
    THEN Result(m, PyStr(val.s \o extra_val.s))
    ELSE Result(Raise(m, "TypeError"), None)

\* visit of _append_extras
VisitExtras(m, obj, key, val, extra_val) ==
    IF ~IsSequence(m.heap, val) THEN Raise(m, "TypeError")
    ELSE IF extra_val = None THEN m
    ELSE LET sum == Concat(m, val, extra_val)
         IN IF sum.m.err # "none" THEN sum.m
            ELSE SetItem(sum.m, obj, key, sum.val)

\* The callbacks by name; each returns None, so _traverse goes on with val.
Visit(visit, m, obj, segment, val, next_segment, args) ==
    CASE visit = "load" -> VisitLoad(m, obj, segment, val, next_segment, args)
      [] visit = "import" -> VisitImport(m, obj, segment, val)
      [] visit = "extras" -> VisitExtras(m, obj, segment, val, args)

_traverse(m, obj, name, visit, args, last_only, create_missing, default) ==
    LET Segments(segs) ==
            LET RECURSIVE Walk(_, _, _)
                Walk(mm, o, i) ==
                    IF i > Len(segs) THEN Result(mm, o)
                    ELSE LET segment == segs[i]
                             last == i = Len(segs)
                             next_segment == IF last THEN NoSegment ELSE segs[i + 1]
                             logged == [mm EXCEPT !.log = Append(@,
                                           [obj |-> o, segment |-> segment])]
                             Visited(got, visited) ==
                                 IF visited.err # "none" THEN Result(visited, got.val)
                                 ELSE Walk(visited, got.val, i + 1)
                             Got(got) ==
                                 IF got.m.err # "none" THEN got
                                 ELSE IF visit # "none" /\ (~last_only \/ last)
                                 THEN Then(Visit(visit, got.m, o, segment, got.val,
                                                 next_segment, args),
                                           LAMBDA visited : Visited(got, visited))
                                 ELSE Walk(got.m, got.val, i + 1)
                         IN Then(IF create_missing
                                 THEN _get_or_create_segment(logged, o, segment, next_segment,
                                                             IF last THEN default ELSE NO_DEFAULT)
                                 ELSE GetItem(logged, o, segment),
                                 Got)
            IN Then(m, LAMBDA m0 : Walk(m0, obj, 1))
    IN Then(_parse_path(name), Segments)

----------------------------------------------------------------------------
(* str.isupper, str(), repr() and str.format *)

UpperChars ==
    {"A", "B", "C", "D", "E", "F", "G", "H", "I", "J", "K", "L", "M",
     "N", "O", "P", "Q", "R", "S", "T", "U", "V", "W", "X", "Y", "Z"}
LowerChars ==
    {"a", "b", "c", "d", "e", "f", "g", "h", "i", "j", "k", "l", "m",
     "n", "o", "p", "q", "r", "s", "t", "u", "v", "w", "x", "y", "z"}

\* k.isupper(): a cased character, and no lowercase one
IsUpper(k) ==
    /\ \E i \in 1..Len(k) : k[i] \in UpperChars
    /\ \A i \in 1..Len(k) : k[i] \notin LowerChars

DigitChar(d) ==
    CASE d = 0 -> "0" [] d = 1 -> "1" [] d = 2 -> "2" [] d = 3 -> "3" [] d = 4 -> "4"
      [] d = 5 -> "5" [] d = 6 -> "6" [] d = 7 -> "7" [] d = 8 -> "8" [] d = 9 -> "9"

\* str(n) for an int n >= 0
RECURSIVE IntStr(_)
IntStr(n) == IF n < 10 THEN <<DigitChar(n)>> ELSE IntStr(n \div 10) \o <<DigitChar(n % 10)>>

RECURSIVE JoinWith(_, _)
JoinWith(parts, sep) ==
    IF Len(parts) = 0 THEN <<>>
    ELSE IF Len(parts) = 1 THEN parts[1]
    ELSE parts[1] \o sep \o JoinWith(Tail(parts), sep)

\* Whether repr is modelled for the literal: strs (taken to hold no quote
\* or backslash), ints, None and the containers of such.
RECURSIVE HasRepr(_)
HasRepr(lit) ==
    \/ lit.t \in {"str", "int", "NoneType"}
    \/ /\ lit.t \in {"list", "dict", "OrderedDict"}
       /\ \A i \in 1..Len(lit.items) : HasRepr(lit.items[i])

RECURSIVE Repr(_)
Repr(lit) ==
    LET key(k) == IF k.isInt THEN IntStr(k.num) ELSE <<"'">> \o k.str \o <<"'">>
        items == [i \in 1..Len(lit.items) |-> Repr(lit.items[i])]
    IN CASE lit.t = "str" -> <<"'">> \o lit.s \o <<"'">>
         [] lit.t = "int" -> IntStr(lit.n)
         [] lit.t = "NoneType" -> <<"N", "o", "n", "e">>
         [] lit.t = "list" -> <<"[">> \o JoinWith(items, <<",", " ">>) \o <<"]">>
         [] lit.t = "dict" ->
               <<"{">> \o JoinWith([i \in 1..Len(items) |->
                                       key(lit.keys[i]) \o <<":", " ">> \o items[i]],
                                   <<",", " ">>) \o <<"}">>
         [] lit.t = "OrderedDict" ->
               <<"O", "r", "d", "e", "r", "e", "d", "D", "i", "c", "t", "(">>
                 \o (IF Len(items) = 0 THEN <<>>
                     ELSE <<"[">> \o JoinWith([i \in 1..Len(items) |->
                                <<"(">> \o key(lit.keys[i]) \o <<",", " ">> \o items[i] \o <<")">>],
                              <<",", " ">>) \o <<"]">>)
                 \o <<")">>

\* format(value, ''): str(value)
ToStr(lit) == IF lit.t = "str" THEN lit.s ELSE Repr(lit)

FirstIndexOf(str, c, from) == TakeWhileStop(str, from, c)

\* str.format called with the items of top, the settings mapping object, as
\* its keywords: [err, s].  Modelled
\* are literal text, the escapes {{ and }}, and replacement fields {name}
\* with name a keyword; a field with a conversion, a format spec, an
\* attribute or an index is not ("unmodelled").
Format(h, top, str) ==
    LET RECURSIVE From(_, _)
        From(i, acc) ==
            IF i > Len(str) THEN [err |-> "none", s |-> acc]
            ELSE IF str[i] = "{"
            THEN IF i < Len(str) /\ str[i + 1] = "{" THEN From(i + 2, Append(acc, "{"))
                 ELSE LET close == FirstIndexOf(str, "}", i + 1)
                          name == SubSeq(str, i + 1, close - 1)
                      IN IF close > Len(str) \/ \E j \in 1..Len(name) : name[j] = "{"
                         THEN [err |-> "ValueError", s |-> <<>>]
                         ELSE IF \E j \in 1..Len(name) : name[j] \in {".", "[", "!", ":"}
                         THEN [err |-> "unmodelled", s |-> <<>>]
                         \* a positional field, and no positional argument
                         ELSE IF name = <<>> \/ AllDigits(name)
                         THEN [err |-> "IndexError", s |-> <<>>]
                         ELSE IF ~ODHas(top, StrSeg(name))
                         THEN [err |-> "KeyError", s |-> <<>>]
                         ELSE Then(Deref(h, ODGet(top, StrSeg(name))),
                                   LAMBDA lit :
                                       IF ~HasRepr(lit) THEN [err |-> "unmodelled", s |-> <<>>]
                                       ELSE From(close + 1, acc \o ToStr(lit)))
            ELSE IF str[i] = "}"
            THEN IF i < Len(str) /\ str[i + 1] = "}" THEN From(i + 2, Append(acc, "}"))
                 ELSE [err |-> "ValueError", s |-> <<>>]
            ELSE From(i + 1, Append(acc, str[i]))
    IN \* the keywords of a call must be strings
       IF \E i \in 1..Len(top.keys) : top.keys[i].isInt
       THEN [err |-> "TypeError", s |-> <<>>]
       ELSE From(1, <<>>)

----------------------------------------------------------------------------
(* Loader._interpolate, _import_from_string, _append_extras, load *)

\* _interpolate(v, settings): the machine and the value returned.  A key
\* that formatting changes is re-inserted and deleted while the mapping is
\* being iterated; that case is not modelled ("unmodelled").
RECURSIVE _interpolate(_, _, _)
_interpolate(m, v, top) ==
    IF v.t = "str"
    THEN Then(Format(m.heap, m.heap[top.n], v.s),
              LAMBDA f : IF f.err # "none" THEN Result(Raise(m, f.err), None)
                         ELSE Result(m, PyStr(f.s)))
    ELSE IF IsMapping(m.heap, v)
    THEN LET RECURSIVE Keys(_, _)
             Keys(mm, i) ==
                 IF i > Len(mm.heap[v.n].keys) \/ mm.err # "none" THEN mm
                 ELSE LET k == mm.heap[v.n].keys[i]
                          Item(new_k, r) ==
                              IF r.m.err # "none" THEN r.m
                              ELSE IF new_k.s # k.str THEN Raise(r.m, "unmodelled")
                              ELSE Keys([r.m EXCEPT !.heap[v.n].items[i] = r.val], i + 1)
                          Formatted(new_k) ==
                              IF new_k.err # "none" THEN Raise(mm, new_k.err)
                              ELSE Then(_interpolate(mm, mm.heap[v.n].items[i], top),
                                        LAMBDA r : Item(new_k, r))
                      IN \* an int has no format method
                         IF k.isInt THEN Raise(mm, "AttributeError")
                         ELSE Then(Format(mm.heap, mm.heap[top.n], k.str), Formatted)
         IN Then(m, LAMBDA m0 : Result(Keys(m0, 1), v))
    ELSE IF IsList(m.heap, v)
    THEN LET RECURSIVE Items(_, _, _)
             Items(mm, i, acc) ==
                 IF i > Len(m.heap[v.n].items) \/ mm.err # "none" THEN Result(mm, acc)
                 ELSE Then(_interpolate(mm, mm.heap[v.n].items[i], top),
                           LAMBDA r : Items(r.m, i + 1, Append(acc, r.val)))
             Done(done) ==
                 IF done.m.err # "none" THEN Result(done.m, None)
                 \* v.__class__(...): a new list
                 ELSE Alloc(done.m, [kind |-> "list", keys |-> <<>>, items |-> done.val])
         IN Then(m, LAMBDA m0 : Then(Items(m0, 1, <<>>), Done))
    ELSE Result(m, v)

\* bool(v)
Truthy(h, v) ==
    CASE v.t = "NoneType" -> FALSE
      [] v.t = "int" -> v.n # 0
      [] v.t = "str" -> Len(v.s) > 0
      [] v.t = "ref" -> h[v.n].kind = "LocalSetting" \/ Len(h[v.n].items) > 0
      [] OTHER -> TRUE

\* settings.get(key)
Get(h, top, key) == IF ODHas(h[top.n], key) THEN ODGet(h[top.n], key) ELSE None

KeyImport == <<"I", "M", "P", "O", "R", "T", "_", "F", "R", "O", "M", "_", "S", "T", "R", "I", "N", "G">>
KeyExtra == <<"E", "X", "T", "R", "A">>

\* _parse_path(name) iterates name: a name that is no str cannot be walked
\* ("unmodelled" for a container as a name, TypeError for the others).
NameOf(v) ==
    IF v.t = "str" THEN [err |-> "none", s |-> v.s]
    ELSE IF v.t = "ref" THEN [err |-> "unmodelled", s |-> <<>>]
    ELSE [err |-> "TypeError", s |-> <<>>]

_import_from_string(m, top) ==
    LET import_ == Get(m.heap, top, StrSeg(KeyImport))
        \* for name in import_: the elements of a list, the keys of a
        \* mapping, the characters of a str
        names == IF IsList(m.heap, import_) THEN m.heap[import_.n].items
                 ELSE IF IsMapping(m.heap, import_)
                 THEN [i \in 1..Len(m.heap[import_.n].keys) |->
                          IF m.heap[import_.n].keys[i].isInt
                          THEN PyInt(m.heap[import_.n].keys[i].num)
                          ELSE PyStr(m.heap[import_.n].keys[i].str)]
                 ELSE IF import_.t = "str"
                 THEN [i \in 1..Len(import_.s) |-> PyStr(<<import_.s[i]>>)]
                 ELSE <<>>
        RECURSIVE Each(_, _)
        Each(mm, i) ==
            IF i > Len(names) \/ mm.err # "none" THEN mm
            ELSE LET name == NameOf(names[i])
                 IN IF name.err # "none" THEN Raise(mm, name.err)
                    ELSE Then(_traverse(mm, top, name.s, "import", None, TRUE, FALSE,
                                        NO_DEFAULT),
                              LAMBDA r : Each(r.m, i + 1))
    IN IF ~Truthy(m.heap, import_) THEN m
       \* iterating an int or a LocalSetting
       ELSE IF ~(IsList(m.heap, import_) \/ IsMapping(m.heap, import_) \/ import_.t = "str")
       THEN Raise(m, "TypeError")
       ELSE Each(m, 1)

_append_extras(m, top) ==
    LET extras == Get(m.heap, top, StrSeg(KeyExtra))
        RECURSIVE Each(_, _)
        Each(mm, i) ==
            \* extras.items() is read off the mapping as the loop goes
            IF i > Len(mm.heap[extras.n].keys) \/ mm.err # "none" THEN mm
            ELSE LET k == mm.heap[extras.n].keys[i]
                     extra_val == mm.heap[extras.n].items[i]
                 IN \* iter(path) on an int
                    IF k.isInt THEN Raise(mm, "TypeError")
                    ELSE Then(_traverse(mm, top, k.str, "extras", extra_val, TRUE, FALSE,
                                        NO_DEFAULT),
                              LAMBDA r : Each(r.m, i + 1))
    IN IF ~Truthy(m.heap, extras) THEN m
       \* extras.items() on a value that is no mapping
       ELSE IF ~IsMapping(m.heap, extras) THEN Raise(m, "AttributeError")
       ELSE Each(m, 1)

\* OrderedDict((k, v) for (k, v) in base_settings.items() if k.isupper())
UpperItems(base) ==
    LET keep == {i \in 1..Len(base.keys) : IsUpper(base.keys[i].str)}
        RECURSIVE Pick(_, _)
        Pick(i, acc) ==
            IF i > Len(base.keys) THEN acc
            ELSE IF i \in keep
            THEN Pick(i + 1, [keys |-> Append(acc.keys, base.keys[i]),
                              items |-> Append(acc.items, base.items[i])])
            ELSE Pick(i + 1, acc)
    IN Pick(1, ODEmpty)

\* load(base_settings) of the Loader on file f: the machine and the value
\* returned, None when the file is gone.  _parse_setting, the decoder of
\* the file's raw values, builds new objects for each entry.
load(m, fs, f, base_settings) ==
    LET base == m.heap[base_settings.n]
        Seeded(seeded, read) ==
            LET top == seeded.val
                RECURSIVE Entries(_, _)
                Entries(mm, i) ==
                    IF i > Len(read.keys) \/ mm.err # "none" THEN mm
                    ELSE Then(AllocLit(mm.heap, read.items[i]),
                              LAMBDA value :
                                  Then(_traverse([mm EXCEPT !.heap = value.heap], top,
                                                 read.keys[i], "load", value.val, FALSE, TRUE,
                                                 None),
                                       LAMBDA r : Entries(r.m, i + 1)))
                Extended(extended) ==
                    IF extended.err # "none" THEN Result(extended, None)
                    ELSE Result(extended, top)
                Imported_(imported) ==
                    IF imported.err # "none" THEN Result(imported, None)
                    ELSE Then(_append_extras(imported, top), Extended)
                Interpolated(interpolated) ==
                    IF interpolated.err # "none" THEN Result(interpolated, None)
                    ELSE Then(_import_from_string(interpolated, top), Imported_)
                Merged(merged) ==
                    IF merged.err # "none" THEN Result(merged, None)
                    ELSE Then(_interpolate([merged EXCEPT !.heap[top.n] =
                                                ODDel(@, StrSeg(KeyExtends))], top, top).m,
                              Interpolated)
            IN IF read.err # "none" THEN Result(Raise(seeded.m, read.err), None)
               ELSE Then(Entries(seeded.m, 1), Merged)
    IN IF f \notin DOMAIN fs THEN Result(m, None)
       \* k.isupper() on a key that is no str
       ELSE IF \E i \in 1..Len(base.keys) : base.keys[i].isInt
       THEN Result(Raise(m, "AttributeError"), None)
       ELSE Then(Alloc(m, [kind |-> "OrderedDict"] @@ UpperItems(base)),
                 LAMBDA seeded : Then(read_file(fs, f), LAMBDA read : Seeded(seeded, read)))

----------------------------------------------------------------------------
(* The trees and paths _traverse and _get_or_create_segment are run on *)

MaxCalls == 2
MaxListLen == 2
MaxIndex == 2

Key(name) == StrSeg(name)

\* {A: {b: 1}, L: [1], S: "ab"}
TreeABLS ==
    DictLit("OrderedDict", <<Key(<<"A">>), Key(<<"L">>), Key(<<"S">>)>>,
            <<DictLit("OrderedDict", <<Key(<<"b">>)>>, <<PyInt(1)>>),
              ListLit(<<PyInt(1)>>),
              PyStr(<<"a", "b">>)>>)

\* {L: [[1]], D: {0: 1}}, D a plain dict with an int key
TreeNested ==
    DictLit("OrderedDict", <<Key(<<"L">>), Key(<<"D">>)>>,
            <<ListLit(<<ListLit(<<PyInt(1)>>)>>),
              DictLit("dict", <<IntSeg(0)>>, <<PyInt(1)>>)>>)

TraverseTrees == {DictLit("OrderedDict", <<>>, <<>>), TreeABLS, TreeNested}

TraversePaths ==
    {<<"A">>, <<"A", ".", "b">>, <<"A", ".", "0">>, <<"L", ".", "0">>,
     <<"L", ".", "2">>, <<"L", ".", "b">>, <<"L", ".", "0", ".", "b">>,
     <<"N", ".", "1", ".", "b">>, <<"D", ".", "0">>, <<"S", ".", "0">>}

Defaults == {NO_DEFAULT, None}

NoCall ==
    [op |-> "none", obj |-> None, name |-> <<>>, segment |-> NoSegment,
     next_segment |-> NoSegment, create_missing |-> FALSE, default |-> NO_DEFAULT,
     err |-> "none", ret |-> None, log |-> <<>>, again |-> FALSE, first |-> None,
     n |-> 0]

\* The lists _get_or_create_segment is called on directly.
ListElements == {PLACEHOLDER, PyInt(1), ListLit(<<>>)}

GetOrCreateTrees ==
    {DictLit("OrderedDict", <<Key(<<"L">>), Key(<<"M">>)>>,
             <<ListLit(items), DictLit("OrderedDict", <<Key(<<"k">>)>>, <<PyInt(1)>>)>>) :
        items \in SeqsUpTo(ListElements, MaxListLen)}

GetOrCreateSegments ==
    {IntSeg(i) : i \in 0..MaxIndex} \cup {StrSeg(<<"k">>), StrSeg(<<"z">>)}

GetOrCreateNext == {NoSegment, IntSeg(1), StrSeg(<<"z">>)}

----------------------------------------------------------------------------
(* The base settings and settings files load is run on, and the settings   *)
(* _append_extras is run on                                                *)

MaxEntries == 2
MaxLoads == 2
MaxExtras == 2

Entry(name, value) == [name |-> name, value |-> value]

\* {A: 1, B: 2}
BaseAB == DictLit("dict", <<Key(<<"A">>), Key(<<"B">>)>>, <<PyInt(1), PyInt(2)>>)

\* {LS: LocalSetting('d'), lo: 1, L: ['c']}
BaseLocal ==
    DictLit("dict", <<Key(<<"L", "S">>), Key(<<"l", "o">>), Key(<<"L">>)>>,
            <<LocalSettingLit(PyStr(<<"d">>)), PyInt(1), ListLit(<<PyStr(<<"c">>)>>)>>)

\* {A: OrderedDict(items=['c'], x=1), P: 'p'}
BaseNested ==
    DictLit("dict", <<Key(<<"A">>), Key(<<"P">>)>>,
            <<DictLit("OrderedDict", <<Key(<<"i", "t", "e", "m", "s">>), Key(<<"x">>)>>,
                      <<ListLit(<<PyStr(<<"c">>)>>), PyInt(1)>>),
              PyStr(<<"p">>)>>)

Bases == {BaseAB, BaseLocal, BaseNested}

PathAItems == <<"A", ".", "i", "t", "e", "m", "s">>

\* The entries a section of the Loader's file is made of.
EntryPool ==
    {Entry(<<"A">>, PyInt(5)),
     Entry(<<"A", ".", "x">>, PyInt(7)),
     Entry(<<"L", ".", "2">>, PyStr(<<"v">>)),
     Entry(<<"T", ".", "0", ".", "k">>, PyInt(1)),
     Entry(<<"L", "S">>, PyStr(<<"v">>)),
     Entry(<<"S">>, PyStr(<<"{", "A", "}">>)),
     Entry(KeyExtra, DictLit("OrderedDict", <<Key(PathAItems)>>,
                            <<ListLit(<<PyStr(<<"f">>)>>)>>)),
     Entry(KeyImport, ListLit(<<PyStr(<<"I">>)>>)),
     Entry(<<"I">>, PyStr(<<"m", ".", "C">>)),
     Entry(KeyExtends, PyStr(FileA))}

\* The sections of at most n entries with distinct names.
RECURSIVE SectionsOf(_)
SectionsOf(n) ==
    IF n = 0 THEN {ODEmpty}
    ELSE LET shorter == SectionsOf(n - 1)
         IN shorter \cup
            {[keys |-> Append(d.keys, e.name), items |-> Append(d.items, e.value)] :
                <<d, e>> \in {<<d, e>> \in shorter \X EntryPool : ~ODHas(d, e.name)}}

\* The file the Loader's file may extend: A = 9, Z = 1
ExtendedSection == [keys |-> <<<<"A">>, <<"Z">>>>, items |-> <<PyInt(9), PyInt(1)>>]

\* What EXTRA may name, and what it may give for a name.
ExtraNames == {<<"L">>, PathAItems, <<"S">>, <<"N">>, <<"A">>}
ExtraValues == {None, ListLit(<<>>), ListLit(<<PyStr(<<"f">>)>>)}

RECURSIVE ExtrasOf(_)
ExtrasOf(n) ==
    IF n = 0 THEN {ODEmpty}
    ELSE LET shorter == ExtrasOf(n - 1)
         IN shorter \cup
            {[keys |-> Append(d.keys, Key(k)), items |-> Append(d.items, v)] :
                <<d, k, v>> \in {<<d, k, v>> \in shorter \X ExtraNames \X ExtraValues :
                                   ~ODHas(d, Key(k))}}

\* {L: ['c'], A: {items: ['c', 'd']}, S: 'ab', N: 1, EXTRA: extras}
ExtrasTree(extras) ==
    DictLit("OrderedDict",
            <<Key(<<"L">>), Key(<<"A">>), Key(<<"S">>), Key(<<"N">>), Key(KeyExtra)>>,
            <<ListLit(<<PyStr(<<"c">>)>>),
              DictLit("OrderedDict", <<Key(<<"i", "t", "e", "m", "s">>)>>,
                      <<ListLit(<<PyStr(<<"c">>), PyStr(<<"d">>)>>)>>),
              PyStr(<<"a", "b">>),
              PyInt(1),
              DictLit("OrderedDict", extras.keys, extras.items)>>)

ExtrasTrees == {ExtrasTree(extras) : extras \in ExtrasOf(MaxExtras)}

----------------------------------------------------------------------------
(* Specifications *)

IdleTree ==
    /\ heap = <<>>
    /\ registry = ODEmpty
    /\ settings = None
    /\ heap0 = <<>>
    /\ call = NoCall
    /\ created = ODEmpty


IdleParse ==
    /\ path = <<>>
    /\ shape = [kind |-> "none", tokens |-> <<>>, tail |-> <<>>]
    /\ segments = <<>>
    /\ perr = "none"

IdleRead ==
    /\ files = <<>>
    /\ readArg = <<>>
    /\ readOut = [err |-> "none", keys |-> <<>>, items |-> <<>>]

IdleLoad ==
    /\ baseRef = None
    /\ outs = <<>>

InitParse ==
    /\ pc = "start"
    /\ shape \in WellFormedShapes \cup UnclosedShapes \cup RawShapes
    /\ path = ShapePath(shape)
    /\ segments = <<>>
    /\ perr = "none"
    /\ IdleRead
    /\ IdleTree
    /\ IdleLoad

\* A call of _parse_path(path).  The code has no raise statement and no
\* operation on path that can fail: it always returns.
ParsePath ==
    /\ pc = "start"
    /\ pc' = "parsed"
    /\ segments' = _parse_path(path)
    /\ perr' = "none"
    /\ UNCHANGED <<path, shape, readVars, treeVars, loadVars>>

NextParse == ParsePath

SpecParse == InitParse /\ [][NextParse]_vars

InitRead ==
    /\ pc = "start"
    /\ files \in FileSystems
    /\ readArg = <<>>
    /\ readOut = [err |-> "none", keys |-> <<>>, items |-> <<>>]
    /\ IdleParse
    /\ IdleTree
    /\ IdleLoad

\* A call of Loader(f).read_file().
ReadFile ==
    /\ pc = "start"
    /\ \E f \in DOMAIN files :
          /\ readArg' = f
          /\ readOut' = read_file(files, f)
    /\ pc' = "read"
    /\ UNCHANGED <<files, parseVars, treeVars, loadVars>>

NextRead == ReadFile

SpecRead == InitRead /\ [][NextRead]_vars

InitTree(trees) ==
    /\ pc = "start"
    /\ \E lit \in trees :
          LET r == AllocLit(<<>>, lit)
          IN /\ heap = r.heap
             /\ heap0 = r.heap
             /\ settings = r.val
    /\ registry = ODEmpty
    /\ call = NoCall
    /\ created = ODEmpty
    /\ IdleParse
    /\ IdleRead
    /\ IdleLoad

InitTraverse == InitTree(TraverseTrees)

\* A call _traverse(settings, name, create_missing=..., default=...) with no
\* visit callback.
Traverse ==
    /\ pc \in {"start", "traversed"}
    /\ call.n < MaxCalls
    /\ \E name \in TraversePaths, create_missing \in BOOLEAN, default \in Defaults :
          \E r \in {_traverse(Machine(heap, registry), settings, name, "none", None,
                               FALSE, create_missing, default)},
             again \in {create_missing /\ ODHas(created, name)} :
             /\ ~create_missing => default = NO_DEFAULT
             /\ heap' = r.m.heap
             /\ heap0' = heap
             /\ call' = [NoCall EXCEPT !.op = "traverse", !.obj = settings, !.name = name,
                                       !.create_missing = create_missing,
                                       !.default = default, !.err = r.m.err,
                                       !.ret = r.val, !.log = r.m.log, !.again = again,
                                       !.first = IF again THEN ODGet(created, name) ELSE None,
                                       !.n = call.n + 1]
             /\ created' = IF create_missing /\ r.m.err = "none" /\ ~ODHas(created, name)
                           THEN ODSet(created, name, r.val)
                           ELSE created
    /\ pc' = "traversed"
    /\ UNCHANGED <<registry, settings, parseVars, readVars, loadVars>>

NextTraverse == Traverse

SpecTraverse == InitTraverse /\ [][NextTraverse]_vars

InitGetOrCreate == InitTree(GetOrCreateTrees)

\* A call _get_or_create_segment(obj, segment, next_segment, default) on
\* the list L, the mapping M, a str or an int.
GetOrCreate ==
    /\ pc = "start"
    /\ \E obj \in {GetItem(Machine(heap, registry), settings, Key(<<"L">>)).val,
                   GetItem(Machine(heap, registry), settings, Key(<<"M">>)).val,
                   PyStr(<<"a", "b">>), PyInt(3)},
          segment \in GetOrCreateSegments, next_segment \in GetOrCreateNext,
          default \in Defaults :
          \E r \in {_get_or_create_segment(Machine(heap, registry), obj, segment,
                                            next_segment, default)} :
             /\ heap' = r.m.heap
             /\ heap0' = heap
             /\ call' = [NoCall EXCEPT !.op = "_get_or_create_segment", !.obj = obj,
                                       !.segment = segment, !.next_segment = next_segment,
                                       !.default = default, !.err = r.m.err, !.ret = r.val,
                                       !.n = 1]
    /\ pc' = "called"
    /\ UNCHANGED <<registry, settings, created, parseVars, readVars, loadVars>>

NextGetOrCreate == GetOrCreate

SpecGetOrCreate == InitGetOrCreate /\ [][NextGetOrCreate]_vars

InitExtras == InitTree(ExtrasTrees)

\* A call _append_extras(settings).
AppendExtras ==
    /\ pc = "start"
    /\ \E m \in {_append_extras(Machine(heap, registry), settings)} :
          /\ heap' = m.heap
          /\ heap0' = heap
          /\ call' = [NoCall EXCEPT !.op = "_append_extras", !.obj = settings,
                                    !.err = m.err, !.n = 1]
    /\ pc' = "extended"
    /\ UNCHANGED <<registry, settings, created, parseVars, readVars, loadVars>>

NextExtras == AppendExtras

SpecExtras == InitExtras /\ [][NextExtras]_vars

InitLoad ==
    /\ pc = "start"
    /\ \E lit \in Bases :
          LET r == AllocLit(<<>>, lit)
          IN /\ heap = r.heap
             /\ heap0 = r.heap
             /\ baseRef = r.val
    /\ \E section \in SectionsOf(MaxEntries) :
          files = [f \in {FileA, FileC} |-> IF f = FileA THEN ExtendedSection ELSE section]
    /\ readArg = FileC
    /\ readOut = [err |-> "none", keys |-> <<>>, items |-> <<>>]
    /\ registry = ODEmpty
    /\ settings = None
    /\ call = NoCall
    /\ created = ODEmpty
    /\ outs = <<>>
    /\ IdleParse

\* A call loader.load(base), loader the Loader made on file C.
Load ==
    /\ Len(outs) < MaxLoads
    /\ \E r \in {load(Machine(heap, registry), files, FileC, baseRef)} :
          /\ heap' = r.m.heap
          /\ heap0' = heap
          /\ registry' = r.m.registry
          /\ settings' = r.val
          /\ outs' = Append(outs, [err |-> r.m.err, ret |-> r.val,
                                   tree |-> Deref(r.m.heap, r.val)])
    /\ pc' = "loaded"
    /\ UNCHANGED <<files, readArg, readOut, call, created, baseRef, parseVars>>

\* The Loader's file is removed after the Loader was made.
RemoveFile ==
    /\ Len(outs) < MaxLoads
    /\ FileC \in DOMAIN files
    /\ files' = [f \in DOMAIN files \ {FileC} |-> files[f]]
    /\ UNCHANGED <<pc, readArg, readOut, treeVars, loadVars, parseVars>>

NextLoad == Load \/ RemoveFile

SpecLoad == InitLoad /\ [][NextLoad]_vars

----------------------------------------------------------------------------
(* Claims about _parse_path *)

\* seg is the segment the integer rule gives for the token text: an integer
\* exactly when text is all digits and not a multi-character string starting
\* with 0, and then its decimal value; otherwise the text itself.
IsSegmentOf(seg, text) ==
    LET int == AllDigits(text) /\ ~(Len(text) > 1 /\ text[1] = "0")
    IN /\ seg.isInt = int
       /\ int => seg.num = IntOf(text)
       /\ ~int => seg.str = text

\* C5: _parse_path yields exactly one segment per top-level token of a
\* path expression (tokens separated by dots, a parenthesized token one
\* segment whose inner dots never split it), and a segment is an integer if
\* and only if its token is all digits and not a multi-character string
\* starting with 0; the integer is the token's decimal value and a string
\* segment is the token's text.
C5_OneSegmentPerToken ==
    (pc = "parsed" /\ shape.kind = "tokens") =>
        /\ Len(segments) = Len(shape.tokens)
        /\ \A i \in 1..Len(shape.tokens) :
              IsSegmentOf(segments[i], shape.tokens[i].text)

C5_Witness ==
    /\ pc = "parsed"
    /\ shape.kind = "tokens"
    /\ path = <<"(", ".", ")", ".", "7">>
    /\ segments = <<StrSeg(<<".">>), IntSeg(7)>>

\* Some "(" of p has no ")" after it.
HasUnclosedParen(p) ==
    \E i \in 1..Len(p) : p[i] = "(" /\ \A j \in (i + 1)..Len(p) : p[j] # ")"

\* C6, as claimed: _parse_path fails with a malformed-path error whenever
\* the path expression contains a "(" that is never closed by a ")".
C6_UnclosedParenFails ==
    (pc = "parsed" /\ HasUnclosedParen(path)) => perr = "MalformedPathError"

\* C6, amended: when the "(" that opens the last token of a path expression
\* is never closed, _parse_path raises no error; it returns one segment per
\* token before it, followed by one last segment made of everything after
\* that "(" up to the end of the expression.
C6_UnclosedParenReturnsRest ==
    (pc = "parsed" /\ shape.kind = "unclosed") =>
        /\ perr = "none"
        /\ Len(segments) = Len(shape.tokens) + 1
        /\ \A i \in 1..Len(shape.tokens) :
              IsSegmentOf(segments[i], shape.tokens[i].text)
        /\ IsSegmentOf(segments[Len(segments)], shape.tail)

C6_Witness ==
    /\ pc = "parsed"
    /\ shape.kind = "unclosed"
    /\ path = <<"a", ".", "(", "a", ".">>
    /\ perr = "none"
    /\ segments = <<StrSeg(<<"a">>), StrSeg(<<"a", ".">>)>>

----------------------------------------------------------------------------
(* Claims about read_file *)

\* The value read_file(f) gives name, when f's own section does not set it
\* and f extends the files es: the value from the first file of es whose
\* own read_file result holds the name.
RECURSIVE FirstListedValue(_, _, _, _)
FirstListedValue(fs, es, name, i) ==
    IF i > Len(es) THEN None
    ELSE IF ODHas(read_file(fs, es[i]), name) THEN ODGet(read_file(fs, es[i]), name)
    ELSE FirstListedValue(fs, es, name, i + 1)

ReadExtends == ExtendsList(IF ODHas(files[readArg], KeyExtends)
                           THEN ODGet(files[readArg], KeyExtends) ELSE None)

\* C1, as claimed: when file C declares extends = [A, B], a name set in
\* both A and B resolves to B's value in the mapping read_file returns for
\* C, and a name set in C's own section overrides the value from both.
C1_LaterExtendsWins ==
    (pc = "read" /\ readOut.err = "none" /\ readArg = FileC
        /\ ReadExtends = <<FileA, FileB>>) =>
        \A name \in {NameX, NameY} :
            /\ ODHas(files[FileC], name) =>
                  ODGet(readOut, name) = ODGet(files[FileC], name)
            /\ (~ODHas(files[FileC], name) /\ ODHas(files[FileA], name)
                    /\ ODHas(files[FileB], name)) =>
                  ODGet(readOut, name) = ODGet(files[FileB], name)

\* C1, amended: when file C declares extends = [A, B], a name set in both A
\* and B resolves to A's value in the mapping read_file returns for C (of
\* the extended files that set a name, the one listed first wins), and a
\* name set in C's own section overrides the value from both A and B.
C1_FirstExtendsWins ==
    (pc = "read" /\ readOut.err = "none") =>
        \A name \in {NameX, NameY} :
            /\ ODHas(files[readArg], name) =>
                  ODGet(readOut, name) = ODGet(files[readArg], name)
            /\ (~ODHas(files[readArg], name) /\ ODHas(readOut, name)) =>
                  ODGet(readOut, name) = FirstListedValue(files, ReadExtends, name, 1)
            /\ ODHas(readOut, name) <=>
                  \/ ODHas(files[readArg], name)
                  \/ \E i \in 1..Len(ReadExtends) :
                        ODHas(read_file(files, ReadExtends[i]), name)

C1_Witness ==
    /\ pc = "read"
    /\ readArg = FileC
    /\ ReadExtends = <<FileA, FileB>>
    /\ files[FileA] = [keys |-> <<NameX, NameY>>, items |-> <<PyInt(1), PyInt(1)>>]
    /\ files[FileB].keys = <<NameX, NameY>>
    /\ files[FileB].items = <<PyInt(2), PyInt(2)>>
    /\ files[FileC].keys = <<KeyExtends, NameY>>
    /\ readOut.err = "none"
    /\ ODGet(readOut, NameX) = PyInt(1)
    /\ ODGet(readOut, NameY) = PyInt(0)

----------------------------------------------------------------------------
(* Claims about _traverse and _get_or_create_segment *)

\* The iterations of the last traversal that applied a str segment to a
\* list, and those that applied an int segment to a mapping.
StrOnList(i) == IsList(heap, call.log[i].obj) /\ ~call.log[i].segment.isInt
IntOnMapping(i) == IsMapping(heap, call.log[i].obj) /\ call.log[i].segment.isInt

KeysOf(h) == [a \in 1..Len(h) |-> h[a].keys]

\* C7, as claimed: _traverse fails with a type-mismatch error whenever a
\* segment's kind does not match the kind of the container it is applied
\* to (a string segment applied to a sequence, an integer segment applied
\* to a mapping), with create_missing false and with create_missing true,
\* and in the failing case it adds no key to the mapping.
C7_MismatchFails ==
    (call.op = "traverse"
        /\ \E i \in 1..Len(call.log) : StrOnList(i) \/ IntOnMapping(i)) =>
        /\ call.err = "TypeError"
        /\ KeysOf(heap) = KeysOf(heap0)

\* C7, amended: _traverse fails with a type error whenever a string segment
\* is applied to a list, with create_missing false and with create_missing
\* true, and then it changes nothing in the tree.  An integer segment
\* applied to a mapping is no mismatch, it is used as a key: with
\* create_missing false the step gives the value under that key or fails
\* with a missing-key error, with create_missing true the step never fails
\* and the key is in the mapping afterwards.
C7_StrOnListFails ==
    call.op = "traverse" =>
        \A i \in 1..Len(call.log) :
            /\ StrOnList(i) =>
                  /\ i = Len(call.log)
                  /\ call.err = "TypeError"
                  /\ heap = heap0
            /\ IntOnMapping(i) =>
                  LET absent == ~ODHas(heap0[call.log[i].obj.n], call.log[i].segment)
                  IN IF call.create_missing
                     THEN /\ i = Len(call.log) => call.err = "none"
                          /\ ODHas(heap[call.log[i].obj.n], call.log[i].segment)
                     ELSE /\ i = Len(call.log) =>
                                call.err = (IF absent THEN "KeyError" ELSE "none")
                          /\ heap = heap0

C7_Witness ==
    /\ call.op = "traverse"
    /\ call.n = 1
    /\ call.create_missing
    /\ call.name = <<"A", ".", "0">>
    /\ IntOnMapping(2)
    /\ call.err = "none"
    /\ heap0[call.log[2].obj.n].keys = <<Key(<<"b">>)>>
    /\ heap[call.log[2].obj.n].keys = <<Key(<<"b">>), IntSeg(0)>>

\* C9: a create-missing traversal with no visit callback of a path that an
\* earlier create-missing traversal already created returns the same
\* container as that first call (the same object, or the same scalar),
\* creates no new key or list slot and leaves the key order of every
\* mapping unchanged: the heap is as it was before the call.
C9_RetraverseIdempotent ==
    (call.op = "traverse" /\ call.create_missing /\ call.again) =>
        /\ call.err = "none"
        /\ call.ret = call.first
        /\ heap = heap0

C9_Witness ==
    /\ call.op = "traverse"
    /\ call.create_missing
    /\ call.again
    /\ call.name = <<"N", ".", "1", ".", "b">>
    /\ call.ret.t = "ref"
    /\ Len(heap) > 4

\* C10: _get_or_create_segment on a list with an integer segment never
\* makes the list shorter, changes no element that is not the placeholder
\* sentinel, and leaves the list with at least segment + 1 elements: only
\* appended slots and slots that held the placeholder receive a new value.
C10_GrowthKeepsElements ==
    (call.op = "_get_or_create_segment" /\ IsList(heap0, call.obj) /\ call.segment.isInt) =>
        LET before == heap0[call.obj.n].items
            after == heap[call.obj.n].items
        IN /\ call.err = "none"
           /\ Len(after) >= Len(before)
           /\ Len(after) >= call.segment.num + 1
           /\ \A i \in 1..Len(before) : before[i] # PLACEHOLDER => after[i] = before[i]

C10_Witness ==
    /\ call.op = "_get_or_create_segment"
    /\ IsList(heap0, call.obj)
    /\ call.segment = IntSeg(2)
    /\ heap0[call.obj.n].items = <<PyInt(1), PLACEHOLDER>>
    /\ heap[call.obj.n].items = <<PyInt(1), PLACEHOLDER, None>>

----------------------------------------------------------------------------
(* Claims about load *)

\* The loads that returned a tree.
Returned(i) == outs[i].err = "none" /\ outs[i].ret # None

\* The top-level key each entry of the merged file writes under, in the
\* order load walks the entries.
EntryKeys ==
    LET read == read_file(files, FileC)
    IN [i \in 1..Len(read.keys) |-> _parse_path(read.keys[i])[1]]

\* seq without the elements that occur again later in it
RECURSIVE KeepLast(_, _)
KeepLast(seq, i) ==
    IF i > Len(seq) THEN <<>>
    ELSE IF \E j \in (i + 1)..Len(seq) : seq[j] = seq[i]
    THEN KeepLast(seq, i + 1)
    ELSE <<seq[i]>> \o KeepLast(seq, i + 1)

RECURSIVE Without(_, _, _)
Without(seq, S, i) ==
    IF i > Len(seq) THEN <<>>
    ELSE IF seq[i] \in S THEN Without(seq, S, i + 1)
    ELSE <<seq[i]>> \o Without(seq, S, i + 1)

Elems(seq) == {seq[i] : i \in 1..Len(seq)}

\* The upper-case keys of the base settings that no entry writes under, in
\* the base's order, then the keys the entries write under in the order of
\* their last write; the key extends is popped.
ExpectedKeyOrder ==
    LET baseKeys == UpperItems(heap[baseRef.n]).keys
    IN Without(baseKeys, Elems(EntryKeys), 1)
       \o Without(KeepLast(EntryKeys, 1), {StrSeg(KeyExtends)}, 1)

\* C2: in the tree load returns, the base keys no entry wrote under come
\* first in their original relative order, and after them the top-level
\* keys the entries wrote under, in the order of their last write.
C2_ReorderOnWrite ==
    \A i \in 1..Len(outs) :
        (Returned(i) /\ FileC \in DOMAIN files)
            => outs[i].tree.keys = ExpectedKeyOrder

\* Base {A, B} and the one entry A = 5: the keys come back as [B, A].
C2_Witness ==
    /\ Len(outs) >= 1
    /\ Returned(1)
    /\ FileC \in DOMAIN files
    /\ files[FileC] = [keys |-> <<<<"A">>>>, items |-> <<PyInt(5)>>]
    /\ Deref(heap, baseRef) = BaseAB
    /\ outs[1].tree.keys = <<Key(<<"B">>), Key(<<"A">>)>>

\* C3: two loads of one Loader with the same base settings object and the
\* file unchanged return two trees that are equal (compared after the
\* second load returned).
C3_LoadTwiceEqual ==
    (Len(outs) = 2 /\ Returned(1) /\ Returned(2))
        => Deref(heap, outs[1].ret) = Deref(heap, outs[2].ret)

\* The placeholder occurs somewhere in the literal lit.
RECURSIVE HasPlaceholder(_)
HasPlaceholder(lit) ==
    \/ lit = PLACEHOLDER
    \/ \E i \in 1..Len(lit.items) : HasPlaceholder(lit.items[i])

\* C4: no list element and no mapping value of a tree load returns is the
\* placeholder.
C4_NoPlaceholderReturned ==
    \A i \in 1..Len(outs) : Returned(i) => ~HasPlaceholder(outs[i].tree)

----------------------------------------------------------------------------
(* Claims about _append_extras *)

\* settings[name] by path before and after the call, as literals.
Addressed(h, name) ==
    LET r == _traverse(Machine(h, ODEmpty), settings, name, "none", None, FALSE, FALSE,
                       NO_DEFAULT)
    IN [err |-> r.m.err, lit |-> Deref(r.m.heap, r.val),
        isList |-> r.m.err = "none" /\ IsList(r.m.heap, r.val)]

\* The EXTRA mapping of the settings as a literal.
ExtraLit == Deref(heap0, Get(heap0, settings, StrSeg(KeyExtra)))

\* The elements the extra adds: none for None.
ExtraElements(extra) == IF extra = None THEN <<>> ELSE extra.items

\* C8: _append_extras raises a type error when a name of EXTRA addresses a
\* value that is no sequence of elements (the list-type settings its error
\* message speaks of); otherwise every named value becomes its elements
\* followed by the extra's elements, unchanged for an empty or absent
\* extra; and no other setting changes.
C8_ExtrasAsClaimed ==
    pc = "extended" =>
        LET names == ExtraLit.keys
            allLists == \A i \in 1..Len(names) : Addressed(heap0, names[i].str).isList
            before == Deref(heap0, settings)
            after == Deref(heap, settings)
        IN /\ ~allLists => call.err = "TypeError"
           /\ allLists =>
                 /\ call.err = "none"
                 /\ \A i \in 1..Len(names) :
                       LET old == Addressed(heap0, names[i].str).lit
                           new == Addressed(heap, names[i].str).lit
                       IN /\ new.t = old.t
                          /\ new.s = old.s
                          /\ new.items = old.items \o ExtraElements(ExtraLit.items[i])
           /\ \A k \in 1..Len(before.keys) :
                 (\A i \in 1..Len(names) : _parse_path(names[i].str)[1] # before.keys[k])
                    => /\ k <= Len(after.keys)
                       /\ after.keys[k] = before.keys[k]
                       /\ after.items[k] = before.items[k]

\* The same statement for the settings whose EXTRA names no str setting.
C8_ExtrasOnNonStrings ==
    (pc = "extended"
     /\ \A i \in 1..Len(ExtraLit.keys) :
           Addressed(heap0, ExtraLit.keys[i].str).lit.t # "str")
        => C8_ExtrasAsClaimed

=============================================================================
